---- MODULE Spec2Model ----
(***************************************************************************)
(* A model of the vhdx-rs reader: decoding of the two Header copies and    *)
(* the two RegionTable copies, the log scan of Vhdx::new, the per-entry    *)
(* parser LogEntry::deserialize, the validators, and the construction of   *)
(* the Log with its LogSequence.                                           *)
(*                                                                         *)
(* The file is modelled by its structures: a 64KB slot is a record of the  *)
(* fields stored in it (or an I/O failure of the read), the log region is  *)
(* a sequence of 4096-byte sectors.  Identifiers (GUIDs) are small         *)
(* naturals, 0 being the all-zero identifier.  Stored integers are below   *)
(* 2^31; a 64-bit value that is built from two 32-bit fields is kept as    *)
(* its two halves.                                                         *)
(***************************************************************************)
EXTENDS Integers, Sequences, FiniteSets, TLC

VARIABLES
    disk,         \* the byte source handed to the reader (never written)
    pc,           \* position of the running operation
    pos,          \* reader.stream_position(), a byte offset in the file
    vhdx_header,  \* the VhdxHeader decoded by VhdxHeader::deserialize
    h,            \* the Header Vhdx::new takes log_offset/log_length from
    log_entries,  \* the pool of parsed entries, in on-disk order
    log,          \* the Log built by Log::new (log_entries, log_sequence)
    consumed,     \* bytes the reader has consumed in the running decode
    input,        \* argument of the function under check (pure specs)
    output        \* its result

vars == <<disk, pc, pos, vhdx_header, h, log_entries, log, consumed, input, output>>

(***************************************************************************)
(* Bounds of the model.                                                    *)
(***************************************************************************)
MaxSeq == 2          \* sequence numbers stored on disk range over 0..MaxSeq
MaxEntries == 2      \* log entries stored in the log region
MaxPool == 3         \* length of the pools handed to Log::new directly
MaxRTEntries == 2    \* entries stored in a RegionTable that is decoded on its own
MaxDescs == 2        \* descriptors of an entry that is parsed on its own
MaxCount == 130      \* descript_count of a header whose descriptors are skipped over

(***************************************************************************)
(* Program constants.                                                      *)
(***************************************************************************)
KB == 1024
MB == 1048576
SECTOR_SIZE == 4096
MaxEntryCount == 2047
NilGuid == 0
BAT_ENTRY == 1
META_DATA_ENTRY == 2

HEAD_SIGN == <<104, 101, 97, 100>>
RGT_SIGN == <<114, 101, 103, 105>>
LOGE_SIGN == <<108, 111, 103, 101>>
ZERO_SIGN == <<122, 101, 114, 111>>
DESC_SIGN == <<100, 101, 115, 99>>
DATA_SIGN == <<100, 97, 116, 97>>
NO_SIGN == <<0, 0, 0, 0>>

\* parse_utils::t_sign_u32: four tag bytes to a Signature, Unknown otherwise
t_sign_u32(b) ==
    IF b = HEAD_SIGN THEN "Head"
    ELSE IF b = RGT_SIGN THEN "Regi"
    ELSE IF b = LOGE_SIGN THEN "Loge"
    ELSE IF b = ZERO_SIGN THEN "Zero"
    ELSE IF b = DESC_SIGN THEN "Desc"
    ELSE IF b = DATA_SIGN THEN "Data"
    ELSE "Unknown"

Ok(v) == [ok |-> TRUE, val |-> v, err |-> "none"]
Err(e) == [ok |-> FALSE, val |-> <<>>, err |-> e]

Max(a, b) == IF a >= b THEN a ELSE b

(***************************************************************************)
(* Header                                                                  *)
(***************************************************************************)

\* parse_headers / Header::deserialize: one 64KB read, then the ten fields
HeaderDeserialize(slot) ==
    IF slot.io_error THEN Err("Io")
    ELSE Ok([signature |-> t_sign_u32(slot.signature),
             checksum |-> slot.checksum,
             seq_number |-> slot.seq_number,
             file_write_guid |-> slot.file_write_guid,
             data_write_guid |-> slot.data_write_guid,
             log_guid |-> slot.log_guid,
             log_version |-> slot.log_version,
             version |-> slot.version,
             log_length |-> slot.log_length,
             log_offset |-> slot.log_offset])

\* Header::validate
HeaderValidate(hd) ==
    IF hd.version # 1 THEN Err("VersionError")
    ELSE IF hd.log_version # 0 THEN Err("NotAllowedToBeZero")
    ELSE IF hd.log_length % MB # 0 THEN Err("NotDivisbleByMB")
    ELSE IF hd.log_offset % MB # 0 THEN Err("NotDivisbleByMB")
    ELSE Ok(<<>>)


(***************************************************************************)
(* Checksum engine.  A digest is the byte stream fed to it, kept in a      *)
(* canonical form: a byte 1..255 stands for itself and a negative number   *)
(* -n for a run of n zero bytes.  CRC-32C is taken to be injective: two    *)
(* checksums are equal exactly when the byte streams are.                  *)
(***************************************************************************)
EmptyDigest == <<>>

\* crc::Digest::update for a run of n zero bytes
UpdateZeros(d, n) ==
    IF n <= 0 THEN d
    ELSE IF Len(d) > 0 /\ d[Len(d)] < 0
         THEN [d EXCEPT ![Len(d)] = d[Len(d)] - n]
         ELSE Append(d, 0 - n)

RECURSIVE CanonicalFrom(_, _)
\* the canonical form of the bytes of a slice from index i on
CanonicalFrom(bytes, i) ==
    IF i > Len(bytes) THEN <<>>
    ELSE LET rest == CanonicalFrom(bytes, i + 1)
         IN IF bytes[i] # 0 THEN <<bytes[i]>> \o rest
            ELSE IF rest # <<>> /\ rest[1] < 0 THEN <<rest[1] - 1>> \o Tail(rest)
            ELSE <<0 - 1>> \o rest

\* the canonical form of a slice of bytes
Canonical(bytes) == CanonicalFrom(bytes, 1)

\* crc::Digest::update for a slice of bytes
Update(d, bytes) ==
    LET c == Canonical(bytes)
    IN IF c = <<>> THEN d
       ELSE IF c[1] < 0 THEN UpdateZeros(d, 0 - c[1]) \o Tail(c)
       ELSE d \o c

RECURSIVE to_le_bytes(_, _)
\* uN::to_le_bytes: the w little-endian bytes of v (v is reduced modulo 2^(8w))
to_le_bytes(v, w) ==
    IF w = 0 THEN <<>> ELSE <<v % 256>> \o to_le_bytes(v \div 256, w - 1)

\* Uuid::to_bytes_le: an identifier is its 16 on-disk bytes read little-endian
to_bytes_le(g) == to_le_bytes(g, 16)

\* parse_utils::t_bool_u32
t_bool_u32(v) == v # 0

(***************************************************************************)
(* RegionTable                                                             *)
(***************************************************************************)

\* the 32 bytes of entry i of a slot: the stored entry, zero bytes after the last
RTEntryBytesAt(slot, i) ==
    IF i <= Len(slot.entries) THEN slot.entries[i]
    ELSE [guid |-> NilGuid, file_offset |-> 0, length |-> 0, required |-> 0]

\* RTEntry::deserialize
RTEntryDeserialize(b) ==
    [guid |-> b.guid, file_offset |-> b.file_offset, length |-> b.length,
     required |-> t_bool_u32(b.required)]

\* the match on entry.guid in RegionTable::deserialize
KnownRegionOf(guid) ==
    IF guid = BAT_ENTRY THEN Ok("Bat")
    ELSE IF guid = META_DATA_ENTRY THEN Ok("MetaData")
    ELSE Err("UnknownRTEntryFound")

\* BTreeMap::insert: a later entry replaces the one filed under the same key
MapInsert(m, k, e) == (k :> e) @@ m

RECURSIVE RegionTableLoop(_, _, _)
\* the for loop of RegionTable::deserialize, from entry i on
RegionTableLoop(slot, i, table) ==
    IF i > table.entry_count
    THEN [ok |-> TRUE, val |-> table, err |-> "none", consumed |-> 16 + 32 * table.entry_count]
    ELSE LET entry == RTEntryDeserialize(RTEntryBytesAt(slot, i))
             known == KnownRegionOf(entry.guid)
         IN IF ~known.ok
            THEN [ok |-> FALSE, val |-> <<>>, err |-> known.err, consumed |-> 16 + 32 * i]
            ELSE RegionTableLoop(slot, i + 1,
                     [table EXCEPT !.table_entries = MapInsert(@, known.val, entry)])

\* RegionTable::deserialize; consumed counts the bytes read from the slot
RegionTableDeserialize(slot) ==
    IF slot.io_error
    THEN [ok |-> FALSE, val |-> <<>>, err |-> "Io", consumed |-> 0]
    ELSE RegionTableLoop(slot, 1,
             [signature |-> t_sign_u32(slot.signature),
              checksum |-> slot.checksum,
              entry_count |-> slot.entry_count,
              table_entries |-> <<>>])

\* RTEntry::crc32_from_digest
RTEntryCrc32FromDigest(e, d) ==
    Update(Update(Update(Update(d, to_bytes_le(e.guid)),
                         to_le_bytes(e.file_offset, 8)),
                  to_le_bytes(e.length, 4)),
           to_le_bytes(IF e.required THEN 1 ELSE 0, 4))

\* RegionTable::crc32_from_digest
RegionTableCrc32FromDigest(rt, d) ==
    UpdateZeros(Update(UpdateZeros(Update(d, RGT_SIGN), 4),
                       to_le_bytes(rt.entry_count, 4)), 4)

\* the keys of a BTreeMap<KnowRegion, _> in iteration order (Bat < MetaData)
KeysInOrder(m) ==
    (IF "Bat" \in DOMAIN m THEN <<"Bat">> ELSE <<>>)
    \o (IF "MetaData" \in DOMAIN m THEN <<"MetaData">> ELSE <<>>)

RECURSIVE RTEntriesDigest(_, _, _)
RTEntriesDigest(m, keys, d) ==
    IF keys = <<>> THEN d
    ELSE RTEntriesDigest(m, Tail(keys), RTEntryCrc32FromDigest(m[Head(keys)], d))

\* RegionTable::crc32
RegionTableCrc32(rt) ==
    LET keys == KeysInOrder(rt.table_entries)
        d == RTEntriesDigest(rt.table_entries, keys,
                             RegionTableCrc32FromDigest(rt, EmptyDigest))
    IN UpdateZeros(d, KB * 64 - 16 - 32 * Len(keys))

\* RegionTable::validate
RegionTableValidate(rt) ==
    IF rt.signature # "Regi" THEN Err("SignatureError")
    ELSE IF rt.checksum # RegionTableCrc32(rt) THEN Err("Crc32Error")
    ELSE IF rt.entry_count > MaxEntryCount THEN Err("RTEntryCountError")
    ELSE Ok(<<>>)

(***************************************************************************)
(* The log region on disk.  disk.log is the sequence of 4096-byte sectors  *)
(* stored from file offset LOG_BASE on; every byte of the file that is not *)
(* stored explicitly is zero.  A sector is                                 *)
(*   [kind |-> "head", hdr, descs]   a 64-byte entry header followed by    *)
(*                                    32-byte descriptors and zero padding *)
(*   [kind |-> "data", signature, seq_high, data, seq_low]                 *)
(* data holds the leading bytes of the 4084-byte payload, the rest is 0.   *)
(***************************************************************************)
LOG_BASE == MB
PAYLOAD_SIZE == 4084

ZeroHeaderBytes ==
    [signature |-> NO_SIGN, checksum |-> EmptyDigest, entry_length |-> 0, tail |-> 0,
     seq_number |-> 0, descript_count |-> 0, log_guid |-> NilGuid,
     flushed_file_offset |-> 0, last_file_offset |-> 0]

ZeroDescBytes ==
    [signature |-> NO_SIGN, f4 |-> <<0, 0, 0, 0>>, f8 |-> <<0, 0, 0, 0, 0, 0, 0, 0>>,
     file_offset |-> 0, seq_number |-> 0]

\* the end of the file: just after the stored sectors, or after zero-filled space
FileLen(d) ==
    IF d.truncated THEN LOG_BASE + SECTOR_SIZE * Len(d.log) ELSE 4 * MB

\* read_exact of n bytes at byte offset p succeeds
CanRead(d, p, n) == p + n <= FileLen(d)

\* is a sector stored at the 4096-aligned byte offset p
Stored(d, p) ==
    /\ p >= LOG_BASE
    /\ (p - LOG_BASE) \div SECTOR_SIZE + 1 <= Len(d.log)

SectorAt(d, p) == d.log[(p - LOG_BASE) \div SECTOR_SIZE + 1]

\* the 64 header bytes at sector offset p, as the fields stored in them
HeaderBytesAt(d, p) ==
    IF Stored(d, p) /\ SectorAt(d, p).kind = "head" THEN SectorAt(d, p).hdr
    ELSE ZeroHeaderBytes

\* the 32 bytes of descriptor i (1-based) of the entry whose header is at p
DescBytesAt(d, p, i) ==
    IF Stored(d, p) /\ SectorAt(d, p).kind = "head" /\ i <= Len(SectorAt(d, p).descs)
    THEN SectorAt(d, p).descs[i]
    ELSE ZeroDescBytes

\* the four tag bytes at sector offset p
TagBytesAt(d, p) ==
    IF ~Stored(d, p) THEN NO_SIGN
    ELSE IF SectorAt(d, p).kind = "head" THEN SectorAt(d, p).hdr.signature
    ELSE SectorAt(d, p).signature

RECURSIVE from_le_bytes(_)
\* nom le_u32 / le_u64
from_le_bytes(b) ==
    IF b = <<>> THEN 0 ELSE Head(b) + 256 * from_le_bytes(Tail(b))

(***************************************************************************)
(* LogHeader                                                               *)
(***************************************************************************)

\* LogHeader::deserialize on the 64 bytes hb
LogHeaderDeserialize(hb) ==
    [signature |-> t_sign_u32(hb.signature),
     checksum |-> hb.checksum,
     entry_length |-> hb.entry_length,
     tail |-> hb.tail,
     seq_number |-> hb.seq_number,
     descript_count |-> hb.descript_count,
     log_guid |-> hb.log_guid,
     flushed_file_offset |-> hb.flushed_file_offset,
     last_file_offset |-> hb.last_file_offset]

\* LogHeader::crc32_from_digest
LogHeaderCrc32FromDigest(lh, d) ==
    LET d1 == UpdateZeros(Update(d, LOGE_SIGN), 4)
        d2 == Update(d1, to_le_bytes(lh.entry_length, 4))
        d3 == Update(d2, to_le_bytes(lh.tail, 4))
        d4 == Update(d3, to_le_bytes(lh.seq_number, 8))
        d5 == UpdateZeros(Update(d4, to_le_bytes(lh.descript_count, 4)), 4)
        d6 == Update(d5, to_bytes_le(lh.log_guid))
        d7 == Update(d6, to_le_bytes(lh.flushed_file_offset, 8))
    IN Update(d7, to_le_bytes(lh.last_file_offset, 8))

\* LogHeader::validate without the check of tail
LogHeaderValidateNoTail(lh) ==
    IF lh.signature # "Loge" THEN Err("SignatureError")
    ELSE IF lh.entry_length % (KB * 4) # 0 THEN Err("NotDivisbleByMB")
    ELSE IF lh.seq_number = 0 THEN Err("NotAllowedToBeZero")
    ELSE IF lh.descript_count = 0 THEN Err("NotAllowedToBeZero")
    ELSE IF lh.flushed_file_offset % MB # 0 THEN Err("NotDivisbleByMB")
    ELSE IF lh.last_file_offset % MB # 0 THEN Err("NotDivisbleByMB")
    ELSE Ok(<<>>)

\* LogHeader::validate
LogHeaderValidate(lh) ==
    IF lh.signature # "Loge" THEN Err("SignatureError")
    ELSE IF lh.entry_length % (KB * 4) # 0 THEN Err("NotDivisbleByMB")
    ELSE IF lh.tail % (KB * 4) # 0 THEN Err("NotDivisbleByMB")
    ELSE IF lh.seq_number = 0 THEN Err("NotAllowedToBeZero")
    ELSE IF lh.descript_count = 0 THEN Err("NotAllowedToBeZero")
    ELSE IF lh.flushed_file_offset % MB # 0 THEN Err("NotDivisbleByMB")
    ELSE IF lh.last_file_offset % MB # 0 THEN Err("NotDivisbleByMB")
    ELSE Ok(<<>>)

\* LogEntry::validate
LogEntryValidate(e) == Ok(<<>>)

(***************************************************************************)
(* Descriptors and data sectors                                            *)
(***************************************************************************)
ZeroDesc_SIGN == <<122, 101, 114, 103>>

\* ZeroDesc::deserialize on the 32 bytes b
ZeroDescDeserialize(b) ==
    [kind |-> "Zero", signature |-> t_sign_u32(b.signature),
     zero_length |-> from_le_bytes(b.f8),
     file_offset |-> b.file_offset, seq_number |-> b.seq_number]

\* DataDesc::deserialize on the 32 bytes b
DataDescDeserialize(b) ==
    [kind |-> "Data", signature |-> t_sign_u32(b.signature),
     trailing_bytes |-> b.f4, leading_bytes |-> b.f8,
     file_offset |-> b.file_offset, seq_number |-> b.seq_number,
     data_sector |-> <<>>]

\* DataSector::deserialize on a stored data sector, or on 4096 zero bytes
DataSectorDeserialize(d, p) ==
    IF Stored(d, p) /\ SectorAt(d, p).kind = "data"
    THEN [signature |-> t_sign_u32(SectorAt(d, p).signature),
          seq_high |-> SectorAt(d, p).seq_high,
          data |-> SectorAt(d, p).data,
          seq_low |-> SectorAt(d, p).seq_low]
    ELSE [signature |-> "Unknown", seq_high |-> 0, data |-> <<>>, seq_low |-> 0]

\* a u64 as its two 32-bit halves: hi * 2^32 + lo
U64(hi, lo) == [hi |-> hi, lo |-> lo]

\* the u64 value of a field whose stored value is below 2^31
AsU64(n) == U64(0, n)

RECURSIVE BitOr(_, _)
\* a | b on naturals
BitOr(a, b) ==
    IF a = 0 THEN b
    ELSE IF b = 0 THEN a
    ELSE (IF a % 2 = 1 \/ b % 2 = 1 THEN 1 ELSE 0) + 2 * BitOr(a \div 2, b \div 2)

\* x << 32 on a u64: the lower half moves up, the upper half is shifted out
Shl32(x) == U64(x.lo, 0)

\* x | y on u64
BitOr64(x, y) == U64(BitOr(x.hi, y.hi), BitOr(x.lo, y.lo))

\* DataSector::sequence_number with seq_high shifted while still 32 bits
\* wide: all of its bits are shifted past the width before the widening
DataSectorSequenceNumberNarrow(ds) ==
    BitOr64(AsU64(0), AsU64(ds.seq_low))

\* DataSector::sequence_number
DataSectorSequenceNumber(ds) ==
    BitOr64(Shl32(AsU64(ds.seq_high)), AsU64(ds.seq_low))

\* ZeroDesc::crc32_from_digest
ZeroDescCrc32FromDigest(z, d) ==
    Update(Update(Update(UpdateZeros(Update(d, ZeroDesc_SIGN), 4),
                         to_le_bytes(z.zero_length, 8)),
                  to_le_bytes(z.file_offset, 8)),
           to_le_bytes(z.seq_number, 8))

\* DataDesc::crc32_from_digest
DataDescCrc32FromDigest(dd, d) ==
    Update(Update(Update(Update(Update(d, DESC_SIGN), dd.trailing_bytes),
                         dd.leading_bytes),
                  to_le_bytes(dd.file_offset, 8)),
           to_le_bytes(dd.seq_number, 8))

\* DataSector::crc32_from_digest
DataSectorCrc32FromDigest(ds, d) ==
    Update(UpdateZeros(Update(Update(Update(d, DATA_SIGN), to_le_bytes(ds.seq_high, 4)),
                              ds.data),
                       PAYLOAD_SIZE - Len(ds.data)),
           to_le_bytes(ds.seq_low, 4))

\* Descriptor::crc32_from_digest
DescriptorCrc32FromDigest(desc, d) ==
    IF desc.kind = "Zero" THEN ZeroDescCrc32FromDigest(desc, d)
    ELSE DataDescCrc32FromDigest(desc, d)

RECURSIVE DescBodiesDigest(_, _)
DescBodiesDigest(descs, d) ==
    IF descs = <<>> THEN d
    ELSE DescBodiesDigest(Tail(descs), DescriptorCrc32FromDigest(Head(descs), d))

RECURSIVE DescSectorsDigest(_, _)
DescSectorsDigest(descs, d) ==
    IF descs = <<>> THEN d
    ELSE DescSectorsDigest(Tail(descs),
             IF Head(descs).kind = "Data" /\ Head(descs).data_sector # <<>>
             THEN DataSectorCrc32FromDigest(Head(descs).data_sector[1], d)
             ELSE d)

\* the number of zero bytes Vec<Descriptor>::crc32_from_digest feeds after the bodies
CrcPadding(n) == 4096 - ((64 + n * 32) % 4096)

\* Vec<Descriptor>::crc32_from_digest
DescriptorsCrc32FromDigest(descs, d) ==
    DescSectorsDigest(descs,
        UpdateZeros(DescBodiesDigest(descs, d), CrcPadding(Len(descs))))

\* LogEntry::crc32
LogEntryCrc32(e) ==
    DescriptorsCrc32FromDigest(e.descriptors,
        LogHeaderCrc32FromDigest(e.header, EmptyDigest))

(***************************************************************************)
(* LogEntry::deserialize                                                   *)
(***************************************************************************)
Parsed(v, p) == [status |-> "Ok", val |-> v, pos |-> p]
Failed(st, p) == [status |-> st, val |-> <<>>, pos |-> p]

RECURSIVE ReadDescriptors(_, _, _, _, _)
\* pass 1: the loop over 0..descript_count, from descriptor i on
ReadDescriptors(d, start, i, n, acc) ==
    IF i > n THEN Parsed(acc, start + 64 + 32 * n)
    ELSE LET at == start + 64 + 32 * (i - 1)
             b == DescBytesAt(d, start, i)
             signature == t_sign_u32(b.signature)
         IN IF ~CanRead(d, at, 32) THEN Failed("Err", at)
            ELSE IF signature = "Desc"
            THEN ReadDescriptors(d, start, i + 1, n, Append(acc, DataDescDeserialize(b)))
            ELSE IF signature = "Zero"
            THEN ReadDescriptors(d, start, i + 1, n, Append(acc, ZeroDescDeserialize(b)))
            ELSE Failed("Panic", at)

\* the seek between the passes going back to the start of the entry
SeekToSectorBack(start, current, overflow_checks) == Parsed(<<>>, start)

\* the seek between the passes: SECTOR_SIZE - (current_pos - start_pos) in u64.
\* With overflow checks a negative difference panics, without them it wraps
\* and the cast to i64 makes the seek go backwards.
SeekToSector(start, current, overflow_checks) ==
    IF current - start > SECTOR_SIZE /\ overflow_checks
    THEN Failed("Panic", current)
    ELSE Parsed(<<>>, current + (SECTOR_SIZE - (current - start)))

RECURSIVE AttachSectors(_, _, _, _)
\* pass 2: descriptors.iter_mut().for_each, from descriptor i on
AttachSectors(d, descs, i, cur) ==
    IF i > Len(descs) THEN Parsed(descs, cur)
    ELSE IF descs[i].kind = "Data"
    THEN IF ~CanRead(d, cur, SECTOR_SIZE) THEN Failed("Panic", cur)
         ELSE AttachSectors(d,
                  [descs EXCEPT ![i].data_sector = <<DataSectorDeserialize(d, cur)>>],
                  i + 1, cur + SECTOR_SIZE)
    ELSE Failed("Panic", cur)

\* LogEntry::deserialize with the reader at start
LogEntryDeserialize(d, start, overflow_checks) ==
    IF ~CanRead(d, start, 64) THEN Failed("Err", start)
    ELSE LET header == LogHeaderDeserialize(HeaderBytesAt(d, start))
             p1 == ReadDescriptors(d, start, 1, header.descript_count, <<>>)
         IN IF p1.status # "Ok" THEN p1
            ELSE LET sk == SeekToSector(start, p1.pos, overflow_checks)
                 IN IF sk.status # "Ok" THEN sk
                    ELSE LET p2 == AttachSectors(d, p1.val, 1, sk.pos)
                         IN IF p2.status # "Ok" THEN p2
                            ELSE Parsed([header |-> header, descriptors |-> p2.val],
                                        p2.pos)

(***************************************************************************)
(* LogSequence                                                             *)
(***************************************************************************)

\* the validity predicate of an entry: LogHeader::validate and LogEntry::validate
EntryValid(e) == LogHeaderValidate(e.header).ok /\ LogEntryValidate(e).ok

RECURSIVE SumEntryLength(_, _)
SumEntryLength(entries, n) ==
    IF n = 0 THEN 0 ELSE entries[n].header.entry_length + SumEntryLength(entries, n - 1)

\* the index of the last entry of the pool that is valid, 0 if there is none
RECURSIVE LastValid(_, _)
LastValid(entries, k) ==
    IF k = 0 THEN 0
    ELSE IF EntryValid(entries[k]) THEN k
    ELSE LastValid(entries, k - 1)

\* the first index of the run that ends at k: walk back while the entry before
\* is valid and has a smaller seq_number
RECURSIVE RunStart(_, _)
RunStart(entries, k) ==
    IF k > 1 /\ EntryValid(entries[k - 1])
             /\ entries[k - 1].header.seq_number < entries[k].header.seq_number
    THEN RunStart(entries, k - 1)
    ELSE k

EmptySequence ==
    [sequence_number |-> 0, entries |-> <<>>, head_value |-> 0, tail_value |-> 0]

\* Vhdx::try_get_log_sequence
try_get_log_sequence(entries) ==
    LET k == LastValid(entries, Len(entries))
    IN IF k = 0 THEN EmptySequence
       ELSE LET s == RunStart(entries, k)
            IN [sequence_number |-> entries[k].header.seq_number,
                entries |-> SubSeq(entries, s, k),
                head_value |-> SumEntryLength(entries, k - 1),
                tail_value |-> SumEntryLength(entries, s - 1)]

\* Log::new with the sequence computed from a slice that misses the last entry
LogNewShortSlice(entries) ==
    [log_entries |-> entries,
     log_sequence |-> try_get_log_sequence(SubSeq(entries, 1, Len(entries) - 1))]

\* Log::new
LogNew(entries) ==
    [log_entries |-> entries, log_sequence |-> try_get_log_sequence(entries)]

\* LogSequence::is_empty
LogSequenceIsEmpty(ls) == ls.entries = <<>>

\* LogSequence::is_valid reading the first entry instead of the head
LogSequenceIsValidFirst(ls) ==
    IF ls.entries = <<>> THEN FALSE
    ELSE LET v == ls.entries[1]
         IN ls.tail_value <= v.header.tail /\ ls.head_value >= v.header.tail

\* LogSequence::is_valid
LogSequenceIsValid(ls) ==
    IF ls.entries = <<>> THEN FALSE
    ELSE LET v == ls.entries[Len(ls.entries)]
         IN ls.tail_value <= v.header.tail /\ ls.head_value >= v.header.tail

(***************************************************************************)
(* The files the reader is run on.                                         *)
(***************************************************************************)

\* the CRC-32C of the 4096 bytes of a stored Header, checksum field zeroed
HeaderBytesCrc(slot) ==
    LET d1 == UpdateZeros(Update(EmptyDigest, slot.signature), 4)
        d2 == Update(d1, to_le_bytes(slot.seq_number, 8))
        d3 == Update(d2, to_le_bytes(slot.file_write_guid, 16))
        d4 == Update(d3, to_le_bytes(slot.data_write_guid, 16))
        d5 == Update(d4, to_le_bytes(slot.log_guid, 16))
        d6 == Update(d5, to_le_bytes(slot.log_version, 2))
        d7 == Update(d6, to_le_bytes(slot.version, 2))
        d8 == Update(d7, to_le_bytes(slot.log_length, 4))
        d9 == Update(d8, to_le_bytes(slot.log_offset, 8))
    IN UpdateZeros(d9, 4016)

WithHeaderChecksum(slot) == [slot EXCEPT !.checksum = HeaderBytesCrc(slot)]

HeaderSlot(seq, ver, logver, guid, len, off) ==
    WithHeaderChecksum(
        [io_error |-> FALSE, signature |-> HEAD_SIGN, checksum |-> EmptyDigest,
         seq_number |-> seq, file_write_guid |-> 5, data_write_guid |-> 6,
         log_guid |-> guid, log_version |-> logver, version |-> ver,
         log_length |-> len, log_offset |-> off])

IoErrorSlot == [io_error |-> TRUE]

\* the log_guid values stored in entry headers; the file Header carries the first
LogGuids == {3, 4}
FileLogGuid == CHOOSE g \in LogGuids : \A x \in LogGuids : g <= x

\* the Header copies an open is run on
HeaderSlots ==
    {IoErrorSlot} \cup
    {HeaderSlot(seq, ver, 0, guid, len, LOG_BASE) :
        seq \in 1..MaxSeq, ver \in {1, 2}, guid \in {NilGuid, FileLogGuid}, len \in {0, MB}}

RTEntryBytes(guid, off, req) ==
    [guid |-> guid, file_offset |-> off, length |-> MB, required |-> req]

BatBytes == RTEntryBytes(BAT_ENTRY, 3 * MB, 1)
MetaDataBytes == RTEntryBytes(META_DATA_ENTRY, 2 * MB, 1)
OptionalBytes == RTEntryBytes(9, 3 * MB, 0)
RequiredBytes == RTEntryBytes(9, 3 * MB, 1)
\* a second entry under the BAT identifier, pointing elsewhere
BatMovedBytes == RTEntryBytes(BAT_ENTRY, 5 * MB, 1)

RECURSIVE RTEntriesBytesDigest(_, _)
RTEntriesBytesDigest(entries, d) ==
    IF entries = <<>> THEN d
    ELSE RTEntriesBytesDigest(Tail(entries),
             Update(Update(Update(Update(d, to_le_bytes(Head(entries).guid, 16)),
                                  to_le_bytes(Head(entries).file_offset, 8)),
                           to_le_bytes(Head(entries).length, 4)),
                    to_le_bytes(Head(entries).required, 4)))

\* the CRC-32C of the 64KB of a stored RegionTable, checksum field zeroed
RegionTableBytesCrc(slot) ==
    LET d1 == UpdateZeros(Update(EmptyDigest, slot.signature), 4)
        d2 == UpdateZeros(Update(d1, to_le_bytes(slot.entry_count, 4)), 4)
    IN UpdateZeros(RTEntriesBytesDigest(slot.entries, d2),
                   KB * 64 - 16 - 32 * Len(slot.entries))

RegionTableSlot(count, entries) ==
    LET slot == [io_error |-> FALSE, signature |-> RGT_SIGN, checksum |-> EmptyDigest,
                 entry_count |-> count, entries |-> entries]
    IN [slot EXCEPT !.checksum = RegionTableBytesCrc(slot)]

\* the RegionTable copies an open is run on
OpenRegionTableSlots ==
    {IoErrorSlot,
     RegionTableSlot(2, <<BatBytes, MetaDataBytes>>),
     RegionTableSlot(1, <<BatBytes>>),
     RegionTableSlot(3, <<BatBytes, MetaDataBytes, OptionalBytes>>)}

DataDescBytes(seq) ==
    [signature |-> DESC_SIGN, f4 |-> <<1, 2, 3, 4>>, f8 |-> <<5, 6, 7, 8, 9, 10, 11, 12>>,
     file_offset |-> 8 * MB, seq_number |-> seq]

ZeroDescStored(seq) ==
    [signature |-> ZERO_SIGN, f4 |-> <<0, 0, 0, 0>>, f8 |-> to_le_bytes(SECTOR_SIZE, 8),
     file_offset |-> 8 * MB, seq_number |-> seq]

DataSectorStored(seq) ==
    [kind |-> "data", signature |-> DATA_SIGN, seq_high |-> 0,
     data |-> <<170>>, seq_low |-> seq]

RECURSIVE DescBytesDigest(_, _)
DescBytesDigest(descs, d) ==
    IF descs = <<>> THEN d
    ELSE DescBytesDigest(Tail(descs),
             Update(Update(Update(Update(Update(d, Head(descs).signature), Head(descs).f4),
                                  Head(descs).f8),
                           to_le_bytes(Head(descs).file_offset, 8)),
                    to_le_bytes(Head(descs).seq_number, 8)))

RECURSIVE SectorBytesDigest(_, _)
SectorBytesDigest(sectors, d) ==
    IF sectors = <<>> THEN d
    ELSE SectorBytesDigest(Tail(sectors),
             Update(UpdateZeros(Update(Update(Update(d, Head(sectors).signature),
                                              to_le_bytes(Head(sectors).seq_high, 4)),
                                       Head(sectors).data),
                                PAYLOAD_SIZE - Len(Head(sectors).data)),
                    to_le_bytes(Head(sectors).seq_low, 4)))

\* the CRC-32C of the entry_length bytes of a stored entry, checksum field zeroed
EntryBytesCrc(hdr, descs, sectors) ==
    LET d1 == UpdateZeros(Update(EmptyDigest, hdr.signature), 4)
        d2 == Update(d1, to_le_bytes(hdr.entry_length, 4))
        d3 == Update(d2, to_le_bytes(hdr.tail, 4))
        d4 == Update(d3, to_le_bytes(hdr.seq_number, 8))
        d5 == UpdateZeros(Update(d4, to_le_bytes(hdr.descript_count, 4)), 4)
        d6 == Update(d5, to_le_bytes(hdr.log_guid, 16))
        d7 == Update(d6, to_le_bytes(hdr.flushed_file_offset, 8))
        d8 == Update(d7, to_le_bytes(hdr.last_file_offset, 8))
        d9 == UpdateZeros(DescBytesDigest(descs, d8), SECTOR_SIZE - 64 - 32 * Len(descs))
    IN SectorBytesDigest(sectors, d9)

\* the descriptors and data sectors stored in an entry of each shape:
\* none, one Zero descriptor, one Data descriptor whose sector carries the
\* descriptor's seq_number, one Data descriptor whose sector carries another
EntryShapes == {"none", "zero", "data", "mismatch"}

ShapeDescs(shape, seq) ==
    IF shape = "none" THEN <<>>
    ELSE IF shape = "zero" THEN <<ZeroDescStored(seq)>>
    ELSE <<DataDescBytes(seq)>>

ShapeSectors(shape, seq) ==
    IF shape = "data" THEN <<DataSectorStored(seq)>>
    ELSE IF shape = "mismatch" THEN <<DataSectorStored(seq + 1)>>
    ELSE <<>>

\* the sectors of one stored entry; intact says whether the stored checksum
\* is the CRC-32C of the entry's bytes
StoredEntry(seq, guid, intact, shape) ==
    LET descs == ShapeDescs(shape, seq)
        sectors == ShapeSectors(shape, seq)
        hdr == [signature |-> LOGE_SIGN, checksum |-> EmptyDigest,
                entry_length |-> SECTOR_SIZE * (1 + Len(sectors)), tail |-> 0,
                seq_number |-> seq, descript_count |-> Len(descs), log_guid |-> guid,
                flushed_file_offset |-> 4 * MB, last_file_offset |-> 4 * MB]
    IN <<[kind |-> "head",
          hdr |-> [hdr EXCEPT !.checksum =
                       IF intact THEN EntryBytesCrc(hdr, descs, sectors) ELSE EmptyDigest],
          descs |-> descs]>> \o sectors

StoredEntries ==
    {StoredEntry(seq, guid, intact, shape) :
        seq \in 1..MaxSeq, guid \in LogGuids, intact \in BOOLEAN, shape \in EntryShapes}

RECURSIVE LogRegions(_)
\* the log regions that hold up to n entries back to back, zero bytes after them
LogRegions(n) ==
    IF n = 0 THEN {<<>>}
    ELSE LET shorter == LogRegions(n - 1)
         IN shorter \cup {r \o e : r \in shorter, e \in StoredEntries}

GoodHeaderSlot == HeaderSlot(1, 1, 0, FileLogGuid, MB, LOG_BASE)
GoodRegionTableSlot == RegionTableSlot(2, <<BatBytes, MetaDataBytes>>)

\* files with every combination of Header and RegionTable copies
HeaderDisks ==
    {[fti |-> [io_error |-> FALSE], h1 |-> a, h2 |-> b, rt1 |-> c, rt2 |-> e,
      log |-> l, truncated |-> FALSE] :
        a \in HeaderSlots, b \in HeaderSlots,
        c \in OpenRegionTableSlots, e \in OpenRegionTableSlots,
        l \in {<<>>, StoredEntry(1, FileLogGuid, TRUE, "data")}}

\* files with every log region of up to MaxEntries entries
LogDisks ==
    {[fti |-> [io_error |-> f], h1 |-> GoodHeaderSlot, h2 |-> GoodHeaderSlot,
      rt1 |-> GoodRegionTableSlot, rt2 |-> GoodRegionTableSlot,
      log |-> l, truncated |-> t] :
        f \in {FALSE}, l \in LogRegions(MaxEntries), t \in BOOLEAN}

\* a log region of log_length bytes filled with entries of one sector each
FullLogRegion ==
    [i \in 1..(MB \div SECTOR_SIZE) |-> StoredEntry(i, FileLogGuid, FALSE, "none")[1]]

\* files whose log region is full; a truncated one ends where the region ends
FullLogDisks ==
    {[fti |-> [io_error |-> FALSE], h1 |-> GoodHeaderSlot, h2 |-> GoodHeaderSlot,
      rt1 |-> GoodRegionTableSlot, rt2 |-> GoodRegionTableSlot,
      log |-> FullLogRegion, truncated |-> t] : t \in BOOLEAN}

Disks == HeaderDisks \cup LogDisks \cup FullLogDisks

(***************************************************************************)
(* The open: Vhdx::new                                                     *)
(***************************************************************************)

\* FileTypeIdentifier::deserialize
FtiDeserialize(slot) ==
    IF slot.io_error THEN Err("Io") ELSE Ok([signature |-> "Vhdxfile"])

\* VhdxHeader::deserialize: five decodes, the first failure is returned
VhdxHeaderDeserialize(d) ==
    LET fti == FtiDeserialize(d.fti)
        header_1 == HeaderDeserialize(d.h1)
        header_2 == HeaderDeserialize(d.h2)
        rt_1 == RegionTableDeserialize(d.rt1)
        rt_2 == RegionTableDeserialize(d.rt2)
    IN IF ~fti.ok THEN Err(fti.err)
       ELSE IF ~header_1.ok THEN Err(header_1.err)
       ELSE IF ~header_2.ok THEN Err(header_2.err)
       ELSE IF ~rt_1.ok THEN Err(rt_1.err)
       ELSE IF ~rt_2.ok THEN Err(rt_2.err)
       ELSE Ok([fti |-> fti.val, header_1 |-> header_1.val, header_2 |-> header_2.val,
                region_table_1 |-> rt_1.val, region_table_2 |-> rt_2.val])

\* the Header Vhdx::new reads the log location from
CurrentHeader(vh) == vh.header_1

NoValue == <<>>

Init ==
    /\ disk \in Disks
    /\ pc = "start"
    /\ pos = 0
    /\ vhdx_header = NoValue
    /\ h = NoValue
    /\ log_entries = <<>>
    /\ log = NoValue
    /\ consumed = 0
    /\ input = NoValue
    /\ output = NoValue

\* Vhdx::new: Header::deserialize(reader).unwrap()
DeserializeHeaders ==
    /\ pc = "start"
    /\ LET r == VhdxHeaderDeserialize(disk)
       IN IF r.ok
          THEN /\ vhdx_header' = r.val
               /\ pc' = "select"
          ELSE /\ vhdx_header' = vhdx_header
               /\ pc' = "panic"
    /\ UNCHANGED <<disk, pos, h, log_entries, log, consumed, input, output>>

\* Vhdx::new: the choice of h and the seek to h.log_offset
SelectHeader ==
    /\ pc = "select"
    /\ h' = CurrentHeader(vhdx_header)
    /\ pos' = h'.log_offset
    /\ log_entries' = <<>>
    /\ pc' = "scan"
    /\ UNCHANGED <<disk, vhdx_header, log, consumed, input, output>>

LogEnd == h.log_offset + h.log_length

\* one iteration of the while loop: parse an entry, push it, peek the next tag.
\* consumed is the offset just past the last byte the scan has read.
ScanEntry ==
    /\ pc = "scan"
    /\ pos # LogEnd
    /\ \E overflow_checks \in BOOLEAN :
        LET r == LogEntryDeserialize(disk, pos, overflow_checks)
        IN IF r.status # "Ok"
           THEN /\ pc' = "panic"
                /\ pos' = r.pos
                /\ log_entries' = log_entries
                /\ consumed' = Max(consumed, r.pos)
           ELSE /\ log_entries' = Append(log_entries, r.val)
                /\ IF ~CanRead(disk, r.pos, 4)
                   THEN /\ pc' = "panic"
                        /\ pos' = r.pos
                        /\ consumed' = Max(consumed, r.pos)
                   ELSE IF t_sign_u32(TagBytesAt(disk, r.pos)) = "Loge"
                   THEN /\ pc' = "scan"
                        /\ pos' = r.pos
                        /\ consumed' = Max(consumed, r.pos + 4)
                   ELSE /\ pc' = "meta"
                        /\ pos' = r.pos + 4
                        /\ consumed' = Max(consumed, r.pos + 4)
    /\ UNCHANGED <<disk, vhdx_header, h, log, input, output>>

\* the while condition fails: the reader stands at log_end
ScanEnd ==
    /\ pc = "scan"
    /\ pos = LogEnd
    /\ pc' = "meta"
    /\ UNCHANGED <<disk, pos, vhdx_header, h, log_entries, log, consumed, input, output>>

\* the lookup of the MetaData region in the first RegionTable and the seek to it
FindMetaData ==
    /\ pc = "meta"
    /\ IF "MetaData" \in DOMAIN vhdx_header.region_table_1.table_entries
       THEN /\ pos' = vhdx_header.region_table_1.table_entries["MetaData"].file_offset
            /\ pc' = "log"
       ELSE /\ pos' = pos
            /\ pc' = "panic"
    /\ UNCHANGED <<disk, vhdx_header, h, log_entries, log, consumed, input, output>>

\* the construction of the Log of the returned Vhdx
BuildLog ==
    /\ pc = "log"
    /\ log' = LogNew(log_entries)
    /\ pc' = "done"
    /\ UNCHANGED <<disk, pos, vhdx_header, h, log_entries, consumed, input, output>>

Next ==
    \/ DeserializeHeaders
    \/ SelectHeader
    \/ ScanEntry
    \/ ScanEnd
    \/ FindMetaData
    \/ BuildLog

Spec == Init /\ [][Next]_vars

(***************************************************************************)
(* The functions on their own: the argument is drawn in the initial state, *)
(* one step applies the function.                                          *)
(***************************************************************************)
Idle ==
    /\ disk = NoValue
    /\ pos = 0
    /\ vhdx_header = NoValue
    /\ h = NoValue
    /\ log_entries = <<>>
    /\ log = NoValue
    /\ consumed = 0
    /\ output = NoValue

\* ---- Header::validate ----
HeaderInputs ==
    {HeaderDeserialize(HeaderSlot(seq, ver, logver, guid, len, off)).val :
        seq \in 1..MaxSeq, ver \in {0, 1, 2}, logver \in {0, 1},
        guid \in {NilGuid, FileLogGuid},
        len \in {0, MB, MB + SECTOR_SIZE}, off \in {MB, MB + SECTOR_SIZE, 2 * MB}}

InitHeaderValidate ==
    /\ Idle
    /\ pc = "arg"
    /\ input \in HeaderInputs

CallHeaderValidate ==
    /\ pc = "arg"
    /\ output' = HeaderValidate(input)
    /\ pc' = "ret"
    /\ UNCHANGED <<disk, pos, vhdx_header, h, log_entries, log, consumed, input>>

SpecHeaderValidate == InitHeaderValidate /\ [][CallHeaderValidate]_vars

\* ---- RegionTable::deserialize, then RegionTable::validate ----
RTEntryChoices == {BatBytes, MetaDataBytes, OptionalBytes, RequiredBytes, BatMovedBytes}

RECURSIVE RTEntryLists(_)
RTEntryLists(n) ==
    IF n = 0 THEN {<<>>}
    ELSE LET shorter == RTEntryLists(n - 1)
         IN shorter \cup {Append(l, e) : l \in shorter, e \in RTEntryChoices}

RegionTableInputs ==
    {IoErrorSlot} \cup
    {RegionTableSlot(count, entries) :
        count \in {0, 1, 2, 3, MaxEntryCount, MaxEntryCount + 1},
        entries \in RTEntryLists(MaxRTEntries)}

InitRegionTable ==
    /\ Idle
    /\ pc = "arg"
    /\ input \in RegionTableInputs

CallRegionTableDeserialize ==
    /\ pc = "arg"
    /\ LET r == RegionTableDeserialize(input)
       IN /\ output' = [decode |-> r]
          /\ consumed' = r.consumed
          /\ pc' = IF r.ok THEN "decoded" ELSE "ret"
    /\ UNCHANGED <<disk, pos, vhdx_header, h, log_entries, log, input>>

CallRegionTableValidate ==
    /\ pc = "decoded"
    /\ output' = [decode |-> output.decode, validate |-> RegionTableValidate(output.decode.val)]
    /\ pc' = "ret"
    /\ UNCHANGED <<disk, pos, vhdx_header, h, log_entries, log, consumed, input>>

NextRegionTable == CallRegionTableDeserialize \/ CallRegionTableValidate

SpecRegionTable == InitRegionTable /\ [][NextRegionTable]_vars

\* ---- LogHeader::validate and LogEntry::validate ----

\* the LogEntry that LogEntry::deserialize yields on the stored sectors
DecodeStored(sectors) ==
    LogEntryDeserialize([log |-> sectors, truncated |-> FALSE], LOG_BASE, TRUE).val

ParsableShapes == {"none", "data", "mismatch"}

\* entries as parsed from a log region, each with the log_guid of the file Header
EntryInputs ==
    {[entry |-> DecodeStored(StoredEntry(seq, guid, intact, shape)), log_guid |-> hg] :
        seq \in 1..MaxSeq, guid \in LogGuids, intact \in BOOLEAN,
        shape \in ParsableShapes, hg \in {NilGuid} \cup LogGuids}
    \cup {[entry |-> DecodeStored(<<>>), log_guid |-> hg] : hg \in {NilGuid} \cup LogGuids}

InitEntryValidate ==
    /\ Idle
    /\ pc = "arg"
    /\ input \in EntryInputs

CallEntryValidate ==
    /\ pc = "arg"
    /\ output' = [header |-> LogHeaderValidate(input.entry.header),
                  entry |-> LogEntryValidate(input.entry)]
    /\ pc' = "ret"
    /\ UNCHANGED <<disk, pos, vhdx_header, h, log_entries, log, consumed, input>>

SpecEntryValidate == InitEntryValidate /\ [][CallEntryValidate]_vars

\* ---- Log::new ----
PoolEntries ==
    {DecodeStored(StoredEntry(seq, FileLogGuid, intact, shape)) :
        seq \in 1..MaxSeq, intact \in BOOLEAN, shape \in {"none", "data"}}
    \cup {DecodeStored(<<>>)}

RECURSIVE Pools(_)
Pools(n) ==
    IF n = 0 THEN {<<>>}
    ELSE LET shorter == Pools(n - 1)
         IN shorter \cup {Append(l, e) : l \in shorter, e \in PoolEntries}

InitLogNew ==
    /\ disk = NoValue
    /\ pos = 0
    /\ vhdx_header = NoValue
    /\ h = NoValue
    /\ log = NoValue
    /\ consumed = 0
    /\ input = NoValue
    /\ output = NoValue
    /\ pc = "arg"
    /\ log_entries \in Pools(MaxPool)

CallLogNew ==
    /\ pc = "arg"
    /\ log' = LogNew(log_entries)
    /\ pc' = "ret"
    /\ UNCHANGED <<disk, pos, vhdx_header, h, log_entries, consumed, input, output>>

SpecLogNew == InitLogNew /\ [][CallLogNew]_vars

\* ---- Header::deserialize on the bytes of a slot, then Header::crc32 ----

\* the 80 bytes of the Header of tests::parse_headers; zero bytes follow them
FixtureBytes ==
    <<104, 101, 97, 100, 108, 239, 7, 128, 4, 0, 0, 0, 0, 0,
      0, 0, 204, 224, 101, 179, 170, 241, 216, 75, 156, 141, 22, 9,
      217, 56, 181, 236, 89, 227, 202, 118, 239, 249, 171, 69, 173, 74,
      119, 218, 174, 206, 246, 23, 0, 0, 0, 0, 0, 0, 0, 0,
      0, 0, 0, 0, 0, 0, 0, 0, 0, 0, 1, 0, 0, 0,
      16, 0, 0, 0, 16, 0, 0, 0, 0, 0>>

Reverse(b) == [i \in 1..Len(b) |-> b[Len(b) + 1 - i]]

\* parse_utils::t_guid (Uuid::from_bytes_le): the first three groups are
\* stored little-endian; the value is the 16 bytes of the identifier in order
t_guid(b) ==
    Reverse(SubSeq(b, 1, 4)) \o Reverse(SubSeq(b, 5, 6)) \o Reverse(SubSeq(b, 7, 8))
    \o SubSeq(b, 9, 16)

\* Uuid::to_bytes_le on the 16 bytes of an identifier
UuidToBytesLe(u) ==
    Reverse(SubSeq(u, 1, 4)) \o Reverse(SubSeq(u, 5, 6)) \o Reverse(SubSeq(u, 7, 8))
    \o SubSeq(u, 9, 16)

\* parse_headers with log_version and version taken in the other order
parse_headers_swapped(buffer) ==
    [signature |-> t_sign_u32(SubSeq(buffer, 1, 4)),
     checksum |-> SubSeq(buffer, 5, 8),
     seq_number |-> from_le_bytes(SubSeq(buffer, 9, 16)),
     file_write_guid |-> t_guid(SubSeq(buffer, 17, 32)),
     data_write_guid |-> t_guid(SubSeq(buffer, 33, 48)),
     log_guid |-> t_guid(SubSeq(buffer, 49, 64)),
     log_version |-> from_le_bytes(SubSeq(buffer, 67, 68)),
     version |-> from_le_bytes(SubSeq(buffer, 65, 66)),
     log_length |-> from_le_bytes(SubSeq(buffer, 69, 72)),
     log_offset |-> from_le_bytes(SubSeq(buffer, 73, 80))]

\* parse_headers: the tuple of decoders applied to the buffer from its start;
\* the checksum, a u32 that may exceed the integers of the model, is kept as
\* its four bytes
parse_headers(buffer) ==
    [signature |-> t_sign_u32(SubSeq(buffer, 1, 4)),
     checksum |-> SubSeq(buffer, 5, 8),
     seq_number |-> from_le_bytes(SubSeq(buffer, 9, 16)),
     file_write_guid |-> t_guid(SubSeq(buffer, 17, 32)),
     data_write_guid |-> t_guid(SubSeq(buffer, 33, 48)),
     log_guid |-> t_guid(SubSeq(buffer, 49, 64)),
     log_version |-> from_le_bytes(SubSeq(buffer, 65, 66)),
     version |-> from_le_bytes(SubSeq(buffer, 67, 68)),
     log_length |-> from_le_bytes(SubSeq(buffer, 69, 72)),
     log_offset |-> from_le_bytes(SubSeq(buffer, 73, 80))]

\* Header::crc32_from_digest
HeaderCrc32FromDigest(hd, d) ==
    LET d1 == UpdateZeros(Update(d, HEAD_SIGN), 4)
        d2 == Update(d1, to_le_bytes(hd.seq_number, 8))
        d3 == Update(d2, UuidToBytesLe(hd.file_write_guid))
        d4 == Update(d3, UuidToBytesLe(hd.data_write_guid))
        d5 == Update(d4, UuidToBytesLe(hd.log_guid))
        d6 == Update(d5, to_le_bytes(hd.log_version, 2))
        d7 == Update(d6, to_le_bytes(hd.version, 2))
        d8 == Update(d7, to_le_bytes(hd.log_length, 4))
        d9 == Update(d8, to_le_bytes(hd.log_offset, 8))
    IN UpdateZeros(d9, 4016)

\* Header::crc32
HeaderCrc32(hd) == HeaderCrc32FromDigest(hd, EmptyDigest)

\* the fixture with some of its fields stored differently
HeaderBufferWith(sig, seq, logver, ver, len, off) ==
    sig \o SubSeq(FixtureBytes, 5, 8) \o to_le_bytes(seq, 8) \o SubSeq(FixtureBytes, 17, 64)
    \o to_le_bytes(logver, 2) \o to_le_bytes(ver, 2) \o to_le_bytes(len, 4)
    \o to_le_bytes(off, 8)

HeaderBuffers ==
    {FixtureBytes} \cup
    {HeaderBufferWith(sig, seq, logver, ver, len, off) :
        sig \in {HEAD_SIGN, RGT_SIGN, NO_SIGN}, seq \in 1..(MaxSeq + 2),
        logver \in {0, 1}, ver \in {1, 258}, len \in {MB, 2 * MB}, off \in {MB, 2 * MB}}

InitParseHeaders ==
    /\ Idle
    /\ pc = "arg"
    /\ input \in HeaderBuffers

CallParseHeaders ==
    /\ pc = "arg"
    /\ output' = [decode |-> parse_headers(input)]
    /\ pc' = "decoded"
    /\ UNCHANGED <<disk, pos, vhdx_header, h, log_entries, log, consumed, input>>

CallHeaderCrc32 ==
    /\ pc = "decoded"
    /\ output' = [decode |-> output.decode, crc |-> HeaderCrc32(output.decode)]
    /\ pc' = "ret"
    /\ UNCHANGED <<disk, pos, vhdx_header, h, log_entries, log, consumed, input>>

NextParseHeaders == CallParseHeaders \/ CallHeaderCrc32

SpecParseHeaders == InitParseHeaders /\ [][NextParseHeaders]_vars

\* ---- LogSequence::is_empty and LogSequence::is_valid ----
TailValues == {0, SECTOR_SIZE, 2 * SECTOR_SIZE}

\* a parsed entry whose header carries the tail t
EntryWithTail(t) ==
    LET e == DecodeStored(StoredEntry(1, FileLogGuid, TRUE, "data"))
    IN [e EXCEPT !.header.tail = t]

LogSequenceInputs ==
    {[sequence_number |-> Len(es), entries |-> es, head_value |-> hv, tail_value |-> tv] :
        es \in {<<>>} \cup {<<EntryWithTail(t)>> : t \in TailValues}
                \cup {<<EntryWithTail(t), EntryWithTail(u)>> : t \in TailValues, u \in TailValues},
        hv \in TailValues, tv \in TailValues}

InitLogSequence ==
    /\ Idle
    /\ pc = "arg"
    /\ input \in LogSequenceInputs

CallLogSequenceIsValid ==
    /\ pc = "arg"
    /\ output' = [is_empty |-> LogSequenceIsEmpty(input), is_valid |-> LogSequenceIsValid(input)]
    /\ pc' = "ret"
    /\ UNCHANGED <<disk, pos, vhdx_header, h, log_entries, log, consumed, input>>

SpecLogSequence == InitLogSequence /\ [][CallLogSequenceIsValid]_vars

\* ---- LogHeader::validate on headers with every field right or wrong ----
LogHeaderInputs ==
    {[signature |-> sig, checksum |-> EmptyDigest, entry_length |-> len, tail |-> tl,
      seq_number |-> seq, descript_count |-> n, log_guid |-> FileLogGuid,
      flushed_file_offset |-> ffo, last_file_offset |-> lfo] :
        sig \in {"Loge", "Unknown"}, len \in {SECTOR_SIZE, SECTOR_SIZE + 512},
        tl \in {0, 512}, seq \in 0..MaxSeq, n \in {0, 1},
        ffo \in {4 * MB, 4 * MB + SECTOR_SIZE}, lfo \in {4 * MB, 4 * MB + SECTOR_SIZE}}

InitLogHeaderValidate ==
    /\ Idle
    /\ pc = "arg"
    /\ input \in LogHeaderInputs

CallLogHeaderValidate ==
    /\ pc = "arg"
    /\ output' = LogHeaderValidate(input)
    /\ pc' = "ret"
    /\ UNCHANGED <<disk, pos, vhdx_header, h, log_entries, log, consumed, input>>

SpecLogHeaderValidate == InitLogHeaderValidate /\ [][CallLogHeaderValidate]_vars

\* ---- DataSector::sequence_number ----
HalfValues == 0..(MaxSeq + 5) \cup {65535, 65536, 2147483647}

DataSectorInputs ==
    {[signature |-> "Data", seq_high |-> hi, data |-> <<170>>, seq_low |-> lo] :
        hi \in HalfValues, lo \in HalfValues}

InitSequenceNumber ==
    /\ Idle
    /\ pc = "arg"
    /\ input \in DataSectorInputs

CallSequenceNumber ==
    /\ pc = "arg"
    /\ output' = DataSectorSequenceNumber(input)
    /\ pc' = "ret"
    /\ UNCHANGED <<disk, pos, vhdx_header, h, log_entries, log, consumed, input>>

SpecSequenceNumber == InitSequenceNumber /\ [][CallSequenceNumber]_vars

\* ---- LogEntry::deserialize on entries with every mix of descriptors ----
DescKinds == {"data", "zero", "bad"}

\* 32 descriptor bytes that start with a tag that is neither desc nor zero
BadDescBytes(seq) == [DataDescBytes(seq) EXCEPT !.signature = LOGE_SIGN]

DescOfKind(kind, seq) ==
    IF kind = "data" THEN DataDescBytes(seq)
    ELSE IF kind = "zero" THEN ZeroDescStored(seq)
    ELSE BadDescBytes(seq)

RECURSIVE KindLists(_)
KindLists(n) ==
    IF n = 0 THEN {<<>>}
    ELSE LET shorter == KindLists(n - 1)
         IN shorter \cup {Append(l, k) : l \in shorter, k \in DescKinds}

\* the number of Data descriptors among the first i
RECURSIVE CountData(_, _)
CountData(kinds, i) ==
    IF i = 0 THEN 0
    ELSE CountData(kinds, i - 1) + (IF kinds[i] = "data" THEN 1 ELSE 0)

\* the k-th data sector of an entry, told apart by its payload
NthSector(seq, k) == [DataSectorStored(seq) EXCEPT !.data = <<170 + k>>]

\* an entry with the descriptors of the given kinds, followed by the first
\* kept of the data sectors its Data descriptors call for
MixedEntry(kinds, seq, kept) ==
    LET n == CountData(kinds, Len(kinds))
    IN <<[kind |-> "head",
          hdr |-> [signature |-> LOGE_SIGN, checksum |-> EmptyDigest,
                   entry_length |-> SECTOR_SIZE * (1 + n), tail |-> 0,
                   seq_number |-> seq, descript_count |-> Len(kinds),
                   log_guid |-> FileLogGuid,
                   flushed_file_offset |-> 4 * MB, last_file_offset |-> 4 * MB],
          descs |-> [i \in 1..Len(kinds) |-> DescOfKind(kinds[i], seq)]]>>
       \o [k \in 1..kept |-> NthSector(seq, k)]

\* the sectors an entry header may declare beyond those its descriptors call for
Slacks == {0, 1}

\* files that hold one such entry; truncated ones end after the last stored
\* sector, and entry_length declares slack sectors more than the entry has
MixedEntryInputs ==
    {[disk |-> [log |-> [MixedEntry(kinds, seq, kept) EXCEPT
                            ![1].hdr.entry_length = @ + slack * SECTOR_SIZE],
                truncated |-> t],
      kinds |-> kinds, seq |-> seq, kept |-> kept, slack |-> slack] :
        kinds \in KindLists(MaxDescs), seq \in 1..MaxSeq, t \in BOOLEAN,
        kept \in 0..MaxDescs, slack \in Slacks}

InitLogEntryDeserialize ==
    /\ Idle
    /\ pc = "arg"
    /\ input \in {m \in MixedEntryInputs :
                     LET n == CountData(m.kinds, Len(m.kinds))
                     IN m.kept = n \/ m.kept = n - 1}

CallLogEntryDeserialize ==
    /\ pc = "arg"
    /\ \E overflow_checks \in BOOLEAN :
           output' = LogEntryDeserialize(input.disk, LOG_BASE, overflow_checks)
    /\ pc' = "ret"
    /\ UNCHANGED <<disk, pos, vhdx_header, h, log_entries, log, consumed, input>>

SpecLogEntryDeserialize == InitLogEntryDeserialize /\ [][CallLogEntryDeserialize]_vars

\* ---- the seek between the two passes of LogEntry::deserialize ----

\* the reader after pass 1 has read n descriptors of the entry at start
SeekInputs ==
    {[start_pos |-> st, descript_count |-> n, current_pos |-> st + 64 + 32 * n] :
        st \in {LOG_BASE, LOG_BASE + SECTOR_SIZE}, n \in 0..MaxCount}

InitSeekToSector ==
    /\ Idle
    /\ pc = "arg"
    /\ input \in SeekInputs

CallSeekToSector ==
    /\ pc = "arg"
    /\ \E overflow_checks \in BOOLEAN :
           output' = SeekToSector(input.start_pos, input.current_pos, overflow_checks)
    /\ pc' = "ret"
    /\ UNCHANGED <<disk, pos, vhdx_header, h, log_entries, log, consumed, input>>

SpecSeekToSector == InitSeekToSector /\ [][CallSeekToSector]_vars

\* ---- the CRC bytes of one descriptor decoded from its 32 on-disk bytes ----
DescOffsets == {0, 4 * MB, 8 * MB}
DescLengths == {to_le_bytes(0, 8), to_le_bytes(SECTOR_SIZE, 8), <<5, 6, 7, 8, 9, 10, 11, 12>>}
ZeroLengths == {0, SECTOR_SIZE, MB}

\* the 32 bytes of a Data descriptor or of a Zero descriptor with a zero
\* reserved field
DescriptorInputs ==
    {[DataDescBytes(seq) EXCEPT !.f4 = f4, !.f8 = f8, !.file_offset = fo] :
        seq \in 1..MaxSeq, f4 \in {<<0, 0, 0, 0>>, <<1, 2, 3, 4>>},
        f8 \in DescLengths, fo \in DescOffsets}
    \cup {[ZeroDescStored(seq) EXCEPT !.f8 = to_le_bytes(zl, 8), !.file_offset = fo] :
        seq \in 1..MaxSeq, zl \in ZeroLengths, fo \in DescOffsets}

InitDescriptorCrc ==
    /\ Idle
    /\ pc = "arg"
    /\ input \in DescriptorInputs

\* the match on the peeked tag in LogEntry::deserialize
CallDescriptorDeserialize ==
    /\ pc = "arg"
    /\ t_sign_u32(input.signature) \in {"Desc", "Zero"}
    /\ output' = IF t_sign_u32(input.signature) = "Desc"
                 THEN DataDescDeserialize(input)
                 ELSE ZeroDescDeserialize(input)
    /\ pc' = "decoded"
    /\ UNCHANGED <<disk, pos, vhdx_header, h, log_entries, log, consumed, input>>

\* Descriptor::crc32_from_digest on a fresh digest
CallDescriptorCrc32 ==
    /\ pc = "decoded"
    /\ output' = [desc |-> output,
                  digest |-> DescriptorCrc32FromDigest(output, EmptyDigest)]
    /\ pc' = "ret"
    /\ UNCHANGED <<disk, pos, vhdx_header, h, log_entries, log, consumed, input>>

NextDescriptorCrc == CallDescriptorDeserialize \/ CallDescriptorCrc32

SpecDescriptorCrc == InitDescriptorCrc /\ [][NextDescriptorCrc]_vars

\* ---- the scan loop of Vhdx::new on its own, from the seek to log_offset ----
ScanLengths == {0, SECTOR_SIZE, 2 * SECTOR_SIZE, MB}

ScanEntries == {StoredEntry(1, FileLogGuid, TRUE, shape) : shape \in EntryShapes}

RECURSIVE ScanRegions(_)
ScanRegions(n) ==
    IF n = 0 THEN {<<>>}
    ELSE LET shorter == ScanRegions(n - 1)
         IN shorter \cup {r \o e : r \in shorter, e \in ScanEntries}

InitScan ==
    /\ \E len \in ScanLengths, l \in ScanRegions(MaxEntries), t \in BOOLEAN :
          LET slot == HeaderSlot(1, 1, 0, FileLogGuid, len, LOG_BASE)
          IN /\ disk = [fti |-> [io_error |-> FALSE], h1 |-> slot, h2 |-> slot,
                        rt1 |-> GoodRegionTableSlot, rt2 |-> GoodRegionTableSlot,
                        log |-> l, truncated |-> t]
             /\ h = HeaderDeserialize(slot).val
    /\ pc = "scan"
    /\ pos = h.log_offset
    /\ vhdx_header = NoValue
    /\ log_entries = <<>>
    /\ log = NoValue
    /\ consumed = 0
    /\ input = NoValue
    /\ output = NoValue

NextScan == ScanEntry \/ ScanEnd

\* the loop is sequential code: while an iteration is possible it is taken
SpecScan == InitScan /\ [][NextScan]_vars /\ WF_vars(NextScan)

(***************************************************************************)
(* Properties                                                              *)
(***************************************************************************)

\* a decoded Header passes validation: the head tag and Header::validate
HeaderPasses(hd) == hd.signature = "Head" /\ HeaderValidate(hd).ok

\* a stored copy fails to decode or to validate
HeaderCopyFails(slot) ==
    \/ ~HeaderDeserialize(slot).ok
    \/ ~HeaderPasses(HeaderDeserialize(slot).val)

RegionTableCopyFails(slot) ==
    \/ ~RegionTableDeserialize(slot).ok
    \/ ~RegionTableValidate(RegionTableDeserialize(slot).val).ok

\* Vhdx::new has chosen the Header it reads the log location from
HeaderChosen == pc \in {"scan", "meta", "log", "done"} \/ (pc = "panic" /\ pos # 0)

\* VhdxHeader::deserialize failed on a file whose FileTypeIdentifier is readable
HeadersFailed == pc = "panic" /\ pos = 0 /\ ~disk.fti.io_error

\* C1: when both stored Header copies pass validation, the Header whose
\* log_offset and log_length drive the log scan is the copy with the larger
\* seq_number, whichever slot holds it.
C1_CurrentIsLargerSeq ==
    (/\ HeaderChosen
     /\ HeaderPasses(vhdx_header.header_1)
     /\ HeaderPasses(vhdx_header.header_2))
    => /\ h.seq_number = Max(vhdx_header.header_1.seq_number,
                             vhdx_header.header_2.seq_number)
       /\ h \in {vhdx_header.header_1, vhdx_header.header_2}

\* C2: for the Header and for the RegionTable, the open fails at the decode
\* of the copies only when both copies of one of them fail, and when exactly
\* one copy fails the open goes on with the other copy.
C2_OneGoodCopySuffices ==
    /\ HeadersFailed =>
          \/ HeaderCopyFails(disk.h1) /\ HeaderCopyFails(disk.h2)
          \/ RegionTableCopyFails(disk.rt1) /\ RegionTableCopyFails(disk.rt2)
    /\ (HeaderChosen /\ HeaderCopyFails(disk.h1) /\ ~HeaderCopyFails(disk.h2))
          => h = vhdx_header.header_2
    /\ (HeaderChosen /\ HeaderCopyFails(disk.h2) /\ ~HeaderCopyFails(disk.h1))
          => h = vhdx_header.header_1

\* the entries of the pool are numbered from 1; the run that ends at k and
\* has m entries is SubSeq(pool, k - m + 1, k)
SeqOf(e) == e.header.seq_number

RECURSIVE GoodRun(_)
\* the stored entries with seq_number 1..n, each intact, each with one Data
\* descriptor and its sector, each carrying the log_guid of the file Header
GoodRun(n) ==
    IF n = 0 THEN <<>>
    ELSE GoodRun(n - 1) \o StoredEntry(n, FileLogGuid, TRUE, "data")

\* the entry written after GoodRun(n), its stored checksum not the CRC-32C
\* of its bytes
CorruptTail(n) == StoredEntry(n + 1, FileLogGuid, FALSE, "data")

\* the n for which the log region holds GoodRun(n) followed by CorruptTail(n);
\* 0 if there is none
RunThenCorrupt ==
    LET ns == {n \in 1..(MaxSeq - 1) : disk.log = GoodRun(n) \o CorruptTail(n)}
    IN IF ns = {} THEN 0 ELSE CHOOSE n \in ns : TRUE

C5_ZeroLogGuidMeansEmptyLog ==
    (pc = "done" /\ h.log_version = 0 /\ h.log_guid = NilGuid)
        => log.log_sequence.entries = <<>>

\* an entry has a Data descriptor whose attached sector carries a sequence
\* number other than the descriptor's
HasSectorMismatch(e) ==
    \E i \in 1..Len(e.descriptors) :
        /\ e.descriptors[i].kind = "Data"
        /\ e.descriptors[i].data_sector # <<>>
        /\ DataSectorSequenceNumber(e.descriptors[i].data_sector[1])
               # AsU64(e.descriptors[i].seq_number)

\* C6: an entry with a Data descriptor whose sector carries another sequence
\* number is parsed without aborting, and is never in the LogSequence.
C6_SectorMismatchExcluded ==
    /\ (/\ pc = "scan"
        /\ pos # LogEnd
        /\ Stored(disk, pos) /\ Stored(disk, pos + SECTOR_SIZE)
        /\ SectorAt(disk, pos).kind = "head"
        /\ SectorAt(disk, pos).descs = <<DataDescBytes(SectorAt(disk, pos).hdr.seq_number)>>
        /\ SectorAt(disk, pos + SECTOR_SIZE)
               = DataSectorStored(SectorAt(disk, pos).hdr.seq_number + 1))
       => /\ LogEntryDeserialize(disk, pos, TRUE).status = "Ok"
          /\ HasSectorMismatch(LogEntryDeserialize(disk, pos, TRUE).val)
    /\ pc = "done" =>
          \A i \in 1..Len(log.log_sequence.entries) :
              ~HasSectorMismatch(log.log_sequence.entries[i])

\* the outcome of entry validation: LogHeader::validate and LogEntry::validate
EntryAccepted == output.header.ok /\ output.entry.ok

\* C7: entry validation rejects an entry whose recomputed CRC-32C differs
\* from its stored checksum, and an entry whose log_guid differs from a
\* non-zero log_guid of the file Header.
C7_ChecksumAndLogGuidChecked ==
    pc = "ret" =>
        /\ LogEntryCrc32(input.entry) # input.entry.header.checksum => ~EntryAccepted
        /\ (input.log_guid # NilGuid /\ input.entry.header.log_guid # input.log_guid)
              => ~EntryAccepted

\* C8: a LogHeader with descript_count 0 that has the log-entry tag, aligned
\* entry_length, tail and file offsets and a non-zero seq_number is accepted.
C8_ZeroDescriptorsAccepted ==
    (/\ pc = "ret"
     /\ input.entry.header.descript_count = 0
     /\ input.entry.header.signature = "Loge"
     /\ input.entry.header.entry_length % SECTOR_SIZE = 0
     /\ input.entry.header.tail % SECTOR_SIZE = 0
     /\ input.entry.header.seq_number > 0
     /\ input.entry.header.flushed_file_offset % MB = 0
     /\ input.entry.header.last_file_offset % MB = 0)
    => output.header.ok

\* C9: Header validation accepts a non-zero log_version when log_guid is the
\* all-zero identifier and every other check passes, and rejects a non-zero
\* log_version when log_guid is non-zero.
C9_LogVersionLegacyException ==
    pc = "ret" =>
        /\ (/\ input.log_version # 0
            /\ input.log_guid = NilGuid
            /\ input.version = 1
            /\ input.log_length % MB = 0
            /\ input.log_offset % MB = 0) => output.ok
        /\ (input.log_version # 0 /\ input.log_guid # NilGuid) => ~output.ok

\* C10: decoding a RegionTable whose entry_count exceeds 2047 fails with the
\* entry-count error after the 16 bytes of the table header, no entry read.
C10_EntryCountCheckedFirst ==
    (pc \in {"decoded", "ret"} /\ ~input.io_error /\ input.entry_count > MaxEntryCount)
    => /\ ~output.decode.ok
       /\ output.decode.err = "RTEntryCountError"
       /\ consumed = 16

\* the slot stores exactly the entries its header declares
DeclaresItsEntries(slot) ==
    /\ ~slot.io_error
    /\ slot.entry_count = Len(slot.entries)

\* entry i of the slot carries an identifier that is not a known region
UnknownEntry(slot, i) == ~KnownRegionOf(slot.entries[i].guid).ok

\* C11: a RegionTable with an unrecognised entry whose required flag is
\* false decodes successfully; the decode fails exactly when an
\* unrecognised entry has required = true.
C11_OptionalUnknownTolerated ==
    (pc \in {"decoded", "ret"} /\ DeclaresItsEntries(input))
    => (output.decode.ok <=>
            ~\E i \in 1..Len(input.entries) :
                UnknownEntry(input, i) /\ t_bool_u32(input.entries[i].required))

\* two entries of the slot carry the same known region identifier
HasDuplicateKnown(slot) ==
    \E i, j \in 1..Len(slot.entries) :
        /\ i < j
        /\ slot.entries[i].guid = slot.entries[j].guid
        /\ ~UnknownEntry(slot, i)

\* the first entry of the slot stored under the region k
FirstStored(slot, k) ==
    LET i == CHOOSE i \in 1..Len(slot.entries) :
                 /\ KnownRegionOf(slot.entries[i].guid) = Ok(k)
                 /\ \A j \in 1..(i - 1) : KnownRegionOf(slot.entries[j].guid) # Ok(k)
    IN RTEntryDeserialize(slot.entries[i])

\* C12: a RegionTable in which two entries carry the same known region
\* identifier does not pass decode and validation, and a decoded table never
\* holds a later entry in place of an earlier one of the same KnownRegion.
C12_DuplicateRegionRejected ==
    (pc \in {"decoded", "ret"} /\ DeclaresItsEntries(input) /\ output.decode.ok)
    => /\ \A k \in DOMAIN output.decode.val.table_entries :
              output.decode.val.table_entries[k] = FirstStored(input, k)
       /\ (pc = "ret" /\ HasDuplicateKnown(input)) => ~output.validate.ok

\* the CRC-32C of the 4096 bytes of a Header on disk, of which the first 80
\* are the buffer and the rest zero, with bytes 4..8 replaced by zeros
OnDiskHeaderCrc(buffer) ==
    LET b == [i \in 1..80 |-> IF i \in 5..8 THEN 0 ELSE buffer[i]]
        d1 == Update(EmptyDigest, SubSeq(b, 1, 16))
        d2 == Update(d1, SubSeq(b, 17, 32))
        d3 == Update(d2, SubSeq(b, 33, 48))
        d4 == Update(d3, SubSeq(b, 49, 64))
        d5 == Update(d4, SubSeq(b, 65, 80))
    IN UpdateZeros(d5, 4016)

\* C13: Header::crc32 of a decoded Header is the CRC-32C of the 4096 on-disk
\* bytes it was decoded from with the checksum field replaced by zeros.
C13_HeaderCrcIsCrcOfDiskBytes ==
    (pc = "ret" /\ Len(input) = 80) => output.crc = OnDiskHeaderCrc(input)

\* C16: Header decoding reads little-endian fields at fixed offsets of the
\* slot (signature 0..4, checksum 4..8, seq_number 8..16, file_write_guid
\* 16..32, data_write_guid 32..48, log_guid 48..64, log_version 64..66,
\* version 66..68, log_length 68..72, log_offset 72..80), and the fixture of
\* tests::parse_headers decodes to signature head, seq_number 4,
\* log_version 0, version 1, log_length 1048576 and log_offset 1048576.
C16_HeaderFieldsAtFixedOffsets ==
    pc \in {"decoded", "ret"} =>
        LET hd == output.decode
        IN /\ hd.signature = "Head" <=> SubSeq(input, 1, 4) = HEAD_SIGN
           /\ hd.checksum = SubSeq(input, 5, 8)
           /\ to_le_bytes(hd.seq_number, 8) = SubSeq(input, 9, 16)
           /\ UuidToBytesLe(hd.file_write_guid) = SubSeq(input, 17, 32)
           /\ UuidToBytesLe(hd.data_write_guid) = SubSeq(input, 33, 48)
           /\ UuidToBytesLe(hd.log_guid) = SubSeq(input, 49, 64)
           /\ to_le_bytes(hd.log_version, 2) = SubSeq(input, 65, 66)
           /\ to_le_bytes(hd.version, 2) = SubSeq(input, 67, 68)
           /\ to_le_bytes(hd.log_length, 4) = SubSeq(input, 69, 72)
           /\ to_le_bytes(hd.log_offset, 8) = SubSeq(input, 73, 80)
           /\ input = FixtureBytes =>
                  /\ hd.signature = "Head"
                  /\ hd.seq_number = 4
                  /\ hd.log_version = 0
                  /\ hd.version = 1
                  /\ hd.log_length = 1048576
                  /\ hd.log_offset = 1048576

\* the fixture has been decoded
C16_Witness ==
    /\ pc = "decoded"
    /\ input = FixtureBytes
    /\ output.decode.seq_number = 4

\* C14: LogSequence::is_valid is true exactly when the sequence is non-empty
\* and the tail field of its last entry lies between tail_value and
\* head_value; for an empty sequence it is false and is_empty is true.
C14_IsValidChecksHeadTail ==
    pc = "ret" =>
        /\ output.is_empty <=> Len(input.entries) = 0
        /\ output.is_valid <=>
               /\ Len(input.entries) > 0
               /\ input.tail_value <= input.entries[Len(input.entries)].header.tail
               /\ input.entries[Len(input.entries)].header.tail <= input.head_value
        /\ Len(input.entries) = 0 => (~output.is_valid /\ output.is_empty)

\* a valid sequence of two entries whose first entry has a tail out of range
C14_Witness ==
    /\ pc = "ret"
    /\ Len(input.entries) = 2
    /\ output.is_valid
    /\ input.entries[1].header.tail > input.head_value

\* C15: LogHeader validation fails whenever the signature is not the
\* log-entry tag, entry_length or tail is not a multiple of 4096, seq_number
\* is 0, or flushed_file_offset or last_file_offset is not a multiple of
\* 1048576.
C15_LogHeaderInvariantsEnforced ==
    (/\ pc = "ret"
     /\ \/ input.signature # "Loge"
        \/ input.entry_length % 4096 # 0
        \/ input.tail % 4096 # 0
        \/ input.seq_number = 0
        \/ input.flushed_file_offset % 1048576 # 0
        \/ input.last_file_offset % 1048576 # 0)
    => ~output.ok

\* a header whose only fault is its tail has been rejected
C15_Witness ==
    /\ pc = "ret"
    /\ input.signature = "Loge"
    /\ input.entry_length % 4096 = 0
    /\ input.tail % 4096 # 0
    /\ input.seq_number > 0
    /\ input.descript_count > 0
    /\ input.flushed_file_offset % 1048576 = 0
    /\ input.last_file_offset % 1048576 = 0
    /\ ~output.ok

\* the eight little-endian bytes of a u64
U64Bytes(x) == to_le_bytes(x.lo, 4) \o to_le_bytes(x.hi, 4)

\* C17: DataSector::sequence_number is the 64-bit value whose upper four
\* bytes are seq_high and whose lower four bytes are seq_low, nothing lost;
\* seq_high 2 and seq_low 1 give 0x0000000200000001.
C17_SequenceNumberCombinesHalves ==
    pc = "ret" =>
        /\ U64Bytes(output) = to_le_bytes(input.seq_low, 4) \o to_le_bytes(input.seq_high, 4)
        /\ (input.seq_high = 2 /\ input.seq_low = 1)
               => U64Bytes(output) = <<1, 0, 0, 0, 2, 0, 0, 0>>

\* the halves 2 and 1 have been combined
C17_Witness ==
    /\ pc = "ret"
    /\ input.seq_high = 2
    /\ input.seq_low = 1
    /\ output.hi = 2

\* the number of Data descriptors of the entry stored in the input
DataCount == CountData(input.kinds, Len(input.kinds))

\* C18: for every mix of Zero and Data descriptors with all data sectors
\* stored, LogEntry::deserialize succeeds, the k-th data sector is attached
\* to the k-th Data descriptor, Zero descriptors take no sector, and the
\* reader ends after one 4096-byte sector per Data descriptor.
C18_TwoPassAttachesSectorsInOrder ==
    (/\ pc = "ret"
     /\ \A i \in 1..Len(input.kinds) : input.kinds[i] # "bad"
     /\ input.kept = DataCount)
    => /\ output.status = "Ok"
       /\ Len(output.val.descriptors) = Len(input.kinds)
       /\ output.pos = LOG_BASE + SECTOR_SIZE * (1 + DataCount)
       /\ \A i \in 1..Len(input.kinds) :
              IF input.kinds[i] = "data"
              THEN /\ output.val.descriptors[i].kind = "Data"
                   /\ output.val.descriptors[i].data_sector =
                          <<[signature |-> "Data", seq_high |-> 0,
                             data |-> <<170 + CountData(input.kinds, i)>>,
                             seq_low |-> input.seq]>>
              ELSE output.val.descriptors[i].kind = "Zero"

\* C19: LogEntry::deserialize never panics; a descriptor tag other than Zero
\* or Data and a short read of a DataSector are returned as errors, and an
\* entry that is returned has a sector attached to every Data descriptor.
C19_FailuresAreErrors ==
    pc = "ret" =>
        /\ output.status # "Panic"
        /\ (\E i \in 1..Len(input.kinds) : input.kinds[i] = "bad") => output.status = "Err"
        /\ (input.disk.truncated /\ input.kept < DataCount) => output.status = "Err"
        /\ output.status = "Ok" =>
               \A i \in 1..Len(output.val.descriptors) :
                   output.val.descriptors[i].kind = "Data"
                       => output.val.descriptors[i].data_sector # <<>>

\* the first multiple of 4096 at or after n
NextBoundary(n) == ((n + SECTOR_SIZE - 1) \div SECTOR_SIZE) * SECTOR_SIZE

\* C20: for every descript_count, after pass 1 the reader is moved to the
\* first 4096-byte boundary, relative to the entry start, at or after the
\* end of the descriptor bodies, and the skip distance never underflows.
C20_SeekReachesNextBoundary ==
    pc = "ret" =>
        /\ output.status = "Ok"
        /\ output.pos = input.start_pos
                          + NextBoundary(input.current_pos - input.start_pos)

\* C21: the log scan starts at log_offset, every byte it reads lies inside
\* [log_offset, log_offset + log_length), and it parses no further entry
\* once a tag other than the log-entry tag has been peeked.
C21_ScanStaysInsideLogRegion ==
    (pc \in {"scan", "meta", "log", "done", "panic"} /\ h # NoValue)
    => /\ (pc = "scan" /\ log_entries = <<>>) => pos = h.log_offset
       /\ consumed > 0 => consumed <= h.log_offset + h.log_length
       /\ (pc = "scan" /\ log_entries # <<>>) => t_sign_u32(TagBytesAt(disk, pos)) = "Loge"

\* C22: every iteration of the scan loop that parses an entry moves the
\* reader strictly forward, and the loop ends: by reaching log_end, by
\* peeking a tag other than the log-entry tag, or by a failed read.
C22_ScanTerminates ==
    /\ [][Len(log_entries') > Len(log_entries) => pos' > pos]_vars
    /\ <>(pc # "scan")

\* the loop has parsed an entry and goes on with the next
C22_Witness ==
    /\ pc = "scan"
    /\ Len(log_entries) = 1
    /\ pos > h.log_offset

\* the slot stores known regions only, each at most once
KnownRegionsOnce(slot) ==
    /\ \A i \in 1..Len(slot.entries) : ~UnknownEntry(slot, i)
    /\ ~HasDuplicateKnown(slot)

\* C23: for a RegionTable decoded from an intact on-disk table that stores
\* exactly entry_count entries, RegionTable::crc32 is the CRC-32C of the
\* on-disk bytes with the checksum field zeroed, in whatever order the
\* known regions are stored.
C23_RegionTableCrcIsCrcOfDiskBytes ==
    (/\ pc \in {"decoded", "ret"}
     /\ DeclaresItsEntries(input)
     /\ KnownRegionsOnce(input)
     /\ output.decode.ok)
    => /\ RegionTableCrc32(output.decode.val) = RegionTableBytesCrc(input)
       /\ RegionTableCrc32(output.decode.val) = output.decode.val.checksum

\* C24: the bytes the per-entry CRC takes for a descriptor body are its 32
\* on-disk bytes: tag 'zero', a zero reserved field, zero_length,
\* file_offset and seq_number for a Zero descriptor; tag 'desc', the
\* trailing bytes, the leading bytes, file_offset and seq_number for a Data
\* descriptor.
C24_DescriptorCrcBytesAreDiskBytes ==
    pc = "ret"
    => output.digest = DescBytesDigest(<<input>>, EmptyDigest)

\* C25: for every descriptor count, the number of zero bytes the per-entry
\* CRC puts between the descriptor bodies and the data sectors is the number
\* of bytes LogEntry::deserialize skips between the last descriptor and the
\* first data sector (both 0 when 64 + 32 * n is a multiple of 4096).
C25_CrcPaddingIsSeekSkip ==
    (pc = "ret" /\ output.status = "Ok")
    => CrcPadding(input.descript_count) = output.pos - input.current_pos

\* the number of bytes a digest has been fed: a literal byte counts one, a
\* run of zeros its length
RECURSIVE DigestLen(_)
DigestLen(d) ==
    IF d = <<>> THEN 0
    ELSE (IF Head(d) < 0 THEN -Head(d) ELSE 1) + DigestLen(Tail(d))

\* C26: after LogEntry::deserialize succeeds on an entry that starts at p the
\* reader is at p + header.entry_length, and the bytes the per-entry CRC
\* covers total entry_length.
C26_ReaderEndsAtEntryLength ==
    (pc = "ret" /\ output.status = "Ok")
    => /\ output.pos = LOG_BASE + output.val.header.entry_length
       /\ DigestLen(LogEntryCrc32(output.val)) = output.val.header.entry_length

====
